---- MODULE Spec2Model ----
(***************************************************************************)
(* Location ingestion of go-track-api (server.js, second revision of the   *)
(* file: POST /location at lines 251-296 and handleFlaggedRequest at lines *)
(* 298-345).  One request is a small state machine: the synchronous part   *)
(* of the handler, the completion of the flag read, the completions of the *)
(* per-device writes, the settling of Promise.all and the zero-delay timer *)
(* that calls the derived computation.                                     *)
(***************************************************************************)
EXTENDS Integers, Sequences, FiniteSets, TLC

(* ------------------------------ bounds -------------------------------- *)
NumReq == 2
MaxDevices == 2
MaxTime == 1
MaxN == 2

Req == 1..NumReq
Times == 0..MaxTime

(* --------------------------- JavaScript values ------------------------ *)
\* undefined in a numeric field, undefined in a string field
UndefNum == 0 - 1
UndefStr == "undefined"

\* truthiness of a number-or-undefined and of a string-or-undefined
TruthyNum(n) == n # UndefNum /\ n # 0
TruthyStr(s) == s # UndefStr /\ s # ""

DefaultAccuracy == 20

(* ------------------------------ inputs -------------------------------- *)
NoLocation ==
    [present |-> FALSE, latitude |-> UndefNum, longitude |-> UndefNum,
     accuracy |-> UndefNum, multi |-> UndefNum]

Locations ==
    {NoLocation} \cup
    [present : {TRUE}, latitude : {UndefNum, 0, 1}, longitude : {UndefNum, 0, 2},
     accuracy : {UndefNum, 0, 10}, multi : {UndefNum}]

Flags == {UndefStr, "", "zoneA", "zoneB", "zoneC", "missing"}

Ids == {UndefStr, "", "d1", "d2"}
Distances == {2, 5}
DeviceEntries == [id : Ids, distance : Distances]

\* req.body.devices: an array, a plain object (its values), or not given
DevicesValues ==
    [kind : {"array"}, items : UNION {[1..k -> DeviceEntries] : k \in 0..MaxDevices}]
    \cup [kind : {"object"}, items : {<<e>> : e \in DeviceEntries}]
    \cup {[kind |-> "undefined", items |-> <<>>]}

Bodies == [flag : Flags, location : Locations, devices : DevicesValues]

NoBody ==
    [flag |-> UndefStr, location |-> NoLocation,
     devices |-> [kind |-> "undefined", items |-> <<>>]]

(* ----------------------- the store (firebaseService) ------------------ *)
NoDoc ==
    [exists |-> FALSE, latitude |-> UndefNum, longitude |-> UndefNum,
     accuracy |-> UndefNum, multi |-> UndefNum]

FlagDoc(lat, lon, acc, m) ==
    [exists |-> TRUE, latitude |-> lat, longitude |-> lon, accuracy |-> acc, multi |-> m]

\* the documents under flag/<name> when the server starts
InitialFlags ==
    [f \in Flags |->
        CASE f = "zoneA" -> FlagDoc(9, 9, 5, 3)
          [] f = "zoneB" -> FlagDoc(7, 8, UndefNum, 2)
          [] f = "zoneC" -> FlagDoc(3, 4, 0, 3)
          [] OTHER -> NoDoc]

\* GET /locationById/:deviceId before any such request was answered
NoLookup ==
    [deviceId |-> UndefStr, n |-> UndefNum, had |-> 0,
     response |-> [code |-> 0, data |-> <<>>]]

VARIABLES
    flagStore,           \* flag name -> stored document (or NoDoc)
    history,             \* device key -> sequence of stored records
    pc,                  \* per request: idle, get, all, settled, failed
    body,                \* per request: req.body
    reads,               \* per request: keys read through firebaseService.get
    locationTimestamps,  \* per request: the records built by the handler
    promises,            \* per request: state of each element of promises
    storeRawCalls,       \* per request: the storeRaw calls issued, in order
    settledWith,         \* per request: promises as Promise.all saw them when it settled
    sent,                \* per request: the responses that went out
    attempts,            \* per request: number of send()/json() calls on res
    unhandled,           \* per request: a rejection escaped every catch
    timer,               \* per request: none, scheduled, fired
    derived,             \* per request: arguments of calculateDerived calls
    derivedResult,       \* per request: none, ok, failed: how calculateDerived ended
    lookup               \* the last GET /locationById: deviceId, n and its response

vars ==
    <<flagStore, history, pc, body, reads, locationTimestamps, promises,
      storeRawCalls, settledWith, sent, attempts, unhandled, timer, derived,
      derivedResult, lookup>>

(* ------------------------------ responses ----------------------------- *)
Response(c, m) == [code |-> c, message |-> m]
InvalidLocation == Response(400, "Location data is invalid")
InvalidDevices == Response(400, "Devices data is invalid")
FlagEmpty == Response(500, "Error while updating data: flag is empty")
UpdateError == Response(500, "Error while updating data")
Ok == Response(200, "")

\* res.status(c).json(..) / .send(): the first one goes out, a later one throws
HeadersSent(r) == sent[r] # <<>>
AfterSend(r, resp) == IF HeadersSent(r) THEN sent[r] ELSE <<resp>>

(* ------------------------- validation (252-266) ----------------------- *)
HasFlag(b) == TruthyStr(b.flag)

ValidLocationLax(loc) == loc.present
ValidLocation(loc) ==
    loc.present /\ TruthyNum(loc.longitude) /\ TruthyNum(loc.latitude)

IsArray(devices) == devices.kind = "array"

(* ------------------------ record building ----------------------------- *)
\* _.map over req.body.devices: the elements of an array, the values of an
\* object, nothing for undefined
MapItems(devices) ==
    IF devices.kind \in {"array", "object"} THEN devices.items ELSE <<>>

BaseAccuracy(location) ==
    IF TruthyNum(location.accuracy) THEN location.accuracy ELSE DefaultAccuracy

DirectAccuracy(baseAccuracy, device) == baseAccuracy + device.distance

FlagAccuracy(baseAccuracy, device, location) ==
    baseAccuracy + device.distance * location.multi

\* _.defaultsDeep({}, {location: {accuracy}, id: device.id}, baseLocationTimestamp)
DefaultsDeep(accuracy, id, timestamp, location) ==
    [id |-> id, timestamp |-> timestamp,
     location |-> [latitude |-> location.latitude, longitude |-> location.longitude,
                   accuracy |-> accuracy, multi |-> location.multi]]

\* the timestamp every record of one request gets: Date.now() is read once
RecordTimestampPerDevice(now, i) == now + i
RecordTimestamp(now, i) == now

DirectRecords(b, now) ==
    LET items == MapItems(b.devices)
        baseAccuracy == BaseAccuracy(b.location)
    IN  [i \in 1..Len(items) |->
            DefaultsDeep(DirectAccuracy(baseAccuracy, items[i]), items[i].id,
                         RecordTimestamp(now, i), b.location)]

FlagRecords(b, location, now) ==
    LET items == MapItems(b.devices)
        baseAccuracy == BaseAccuracy(location)
    IN  [i \in 1..Len(items) |->
            DefaultsDeep(FlagAccuracy(baseAccuracy, items[i], location), items[i].id,
                         RecordTimestamp(now, i), location)]

\* if (!locationTimestamp.id) return Promise.resolve();
HasIdDefined(lt) == lt.id # UndefStr
HasId(lt) == TruthyStr(lt.id)

Promises(lts) ==
    [i \in 1..Len(lts) |-> IF HasId(lts[i]) THEN "pending" ELSE "resolved"]

RECURSIVE StoreRawCallsOf(_)
StoreRawCallsOf(lts) ==
    IF lts = <<>> THEN <<>>
    ELSE (IF HasId(Head(lts)) THEN <<[key |-> Head(lts).id, value |-> Head(lts)]>>
          ELSE <<>>) \o StoreRawCallsOf(Tail(lts))

\* reading a property of null throws a TypeError
ThrowsNever(location) == FALSE
ThrowsTypeError(location) == ~location.exists

\* Promise.all: fulfilled when every element is, rejected at the first rejection
AnyFulfilled(ps) == ps = <<>> \/ \E i \in 1..Len(ps) : ps[i] \in {"resolved", "fulfilled"}
AllSettled(ps) == \A i \in 1..Len(ps) : ps[i] # "pending"
AllFulfilled(ps) == \A i \in 1..Len(ps) : ps[i] \in {"resolved", "fulfilled"}
AnyRejected(ps) == \E i \in 1..Len(ps) : ps[i] = "rejected"

(* ------------------------------- Init --------------------------------- *)
Init ==
    /\ flagStore = InitialFlags
    /\ history = [d \in Ids |-> <<>>]
    /\ pc = [r \in Req |-> "idle"]
    /\ body = [r \in Req |-> NoBody]
    /\ reads = [r \in Req |-> <<>>]
    /\ locationTimestamps = [r \in Req |-> <<>>]
    /\ promises = [r \in Req |-> <<>>]
    /\ storeRawCalls = [r \in Req |-> <<>>]
    /\ settledWith = [r \in Req |-> <<>>]
    /\ sent = [r \in Req |-> <<>>]
    /\ attempts = [r \in Req |-> 0]
    /\ unhandled = [r \in Req |-> FALSE]
    /\ timer = [r \in Req |-> "none"]
    /\ derived = [r \in Req |-> <<>>]
    /\ derivedResult = [r \in Req |-> "none"]
    /\ lookup = NoLookup

(* ------------------------------ actions ------------------------------- *)
\* the records are built, the writes issued and Promise.all awaited
Persist(r, lts) ==
    /\ locationTimestamps' = [locationTimestamps EXCEPT ![r] = lts]
    /\ promises' = [promises EXCEPT ![r] = Promises(lts)]
    /\ storeRawCalls' = [storeRawCalls EXCEPT ![r] = StoreRawCallsOf(lts)]
    /\ pc' = [pc EXCEPT ![r] = "all"]

\* a 400 of the validation
Reject(r, resp) ==
    /\ sent' = [sent EXCEPT ![r] = AfterSend(r, resp)]
    /\ attempts' = [attempts EXCEPT ![r] = @ + 1]
    /\ pc' = [pc EXCEPT ![r] = "failed"]
    /\ UNCHANGED <<reads, locationTimestamps, promises, storeRawCalls>>

\* app.post('/location'), the synchronous part, with the start of
\* handleFlaggedRequest
PostLocation(r, b, now) ==
    /\ pc[r] = "idle"
    /\ body' = [body EXCEPT ![r] = b]
    /\ IF HasFlag(b)
         THEN /\ reads' = [reads EXCEPT ![r] = Append(@, b.flag)]
              /\ pc' = [pc EXCEPT ![r] = "get"]
              /\ UNCHANGED <<locationTimestamps, promises, storeRawCalls, sent, attempts>>
         ELSE IF ~ValidLocation(b.location)
                THEN Reject(r, InvalidLocation)
                ELSE IF ~IsArray(b.devices)
                       THEN Reject(r, InvalidDevices)
                       ELSE /\ Persist(r, DirectRecords(b, now))
                            /\ UNCHANGED <<reads, sent, attempts>>
    /\ UNCHANGED <<lookup, derivedResult, flagStore, history, settledWith, unhandled, timer, derived>>

\* firebaseService.get(..).then((location) => ..): lines 301-337
FlagGetThen(r, now) ==
    /\ pc[r] = "get"
    /\ LET location == flagStore[body[r].flag]
           empty == ~location.exists
           afterCheck == IF empty THEN AfterSend(r, FlagEmpty) ELSE sent[r]
           tries == IF empty THEN attempts[r] + 1 ELSE attempts[r]
       IN  IF ThrowsTypeError(location)
             THEN \* the TypeError of line 312 lands in the catch of line 338,
                  \* which responds again
                  /\ sent' = [sent EXCEPT ![r] = afterCheck]
                  /\ attempts' = [attempts EXCEPT ![r] = tries + 1]
                  /\ unhandled' = [unhandled EXCEPT ![r] = afterCheck # <<>>]
                  /\ pc' = [pc EXCEPT ![r] = "failed"]
                  /\ UNCHANGED <<locationTimestamps, promises, storeRawCalls>>
             ELSE /\ sent' = [sent EXCEPT ![r] = afterCheck]
                  /\ attempts' = [attempts EXCEPT ![r] = tries]
                  /\ Persist(r, FlagRecords(body[r], location, now))
                  /\ UNCHANGED unhandled
    /\ UNCHANGED <<lookup, derivedResult, flagStore, history, body, reads, settledWith, timer, derived>>

\* firebaseService.get(..) rejects: the catch of lines 338-344
FlagGetCatch(r) ==
    /\ pc[r] = "get"
    /\ sent' = [sent EXCEPT ![r] = AfterSend(r, UpdateError)]
    /\ attempts' = [attempts EXCEPT ![r] = @ + 1]
    /\ unhandled' = [unhandled EXCEPT ![r] = HeadersSent(r)]
    /\ pc' = [pc EXCEPT ![r] = "failed"]
    /\ UNCHANGED <<lookup, derivedResult, flagStore, history, body, reads, locationTimestamps, promises,
                   storeRawCalls, settledWith, timer, derived>>

\* one storeRaw of the request completes: the record is appended to the
\* history of its device
StoreRawOk(r, i) ==
    /\ i \in 1..Len(promises[r])
    /\ promises[r][i] = "pending"
    /\ promises' = [promises EXCEPT ![r][i] = "fulfilled"]
    /\ history' = [history EXCEPT ![locationTimestamps[r][i].id] =
                       Append(@, locationTimestamps[r][i])]
    /\ UNCHANGED <<lookup, derivedResult, flagStore, pc, body, reads, locationTimestamps, storeRawCalls,
                   settledWith, sent, attempts, unhandled, timer, derived>>

\* one storeRaw of the request fails
StoreRawFail(r, i) ==
    /\ i \in 1..Len(promises[r])
    /\ promises[r][i] = "pending"
    /\ promises' = [promises EXCEPT ![r][i] = "rejected"]
    /\ UNCHANGED <<lookup, derivedResult, flagStore, history, pc, body, reads, locationTimestamps,
                   storeRawCalls, settledWith, sent, attempts, unhandled, timer, derived>>

\* Promise.all(promises).then(..): lines 284-289 and 325-330
PromiseAllThen(r) ==
    /\ pc[r] = "all"
    /\ AllFulfilled(promises[r])
    /\ pc' = [pc EXCEPT ![r] = "settled"]
    /\ settledWith' = [settledWith EXCEPT ![r] = promises[r]]
    /\ IF HeadersSent(r)
         THEN \* send() throws, the catch below it responds and throws too
              /\ attempts' = [attempts EXCEPT ![r] = @ + 2]
              /\ unhandled' = [unhandled EXCEPT ![r] = TRUE]
              /\ UNCHANGED <<sent, timer>>
         ELSE /\ sent' = [sent EXCEPT ![r] = <<Ok>>]
              /\ attempts' = [attempts EXCEPT ![r] = @ + 1]
              /\ timer' = [timer EXCEPT ![r] = "scheduled"]
              /\ UNCHANGED unhandled
    /\ UNCHANGED <<lookup, derivedResult, flagStore, history, body, reads, locationTimestamps, promises,
                   storeRawCalls, derived>>

\* as PromiseAllCatch, but undoing the writes of the request that have landed
PromiseAllCatchRollback(r) ==
    /\ pc[r] = "all"
    /\ AnyRejected(promises[r])
    /\ pc' = [pc EXCEPT ![r] = "settled"]
    /\ settledWith' = [settledWith EXCEPT ![r] = promises[r]]
    /\ sent' = [sent EXCEPT ![r] = AfterSend(r, UpdateError)]
    /\ attempts' = [attempts EXCEPT ![r] = @ + 1]
    /\ unhandled' = [unhandled EXCEPT ![r] = HeadersSent(r)]
    /\ history' = [d \in Ids |->
                      SelectSeq(history[d],
                                LAMBDA rec : \A i \in 1..Len(locationTimestamps[r]) :
                                                rec # locationTimestamps[r][i])]
    /\ UNCHANGED <<lookup, derivedResult, flagStore, body, reads, locationTimestamps, promises,
                   storeRawCalls, timer, derived>>

\* Promise.all(promises) .catch(..): lines 290-295 and 331-336
PromiseAllCatch(r) ==
    /\ pc[r] = "all"
    /\ AnyRejected(promises[r])
    /\ pc' = [pc EXCEPT ![r] = "settled"]
    /\ settledWith' = [settledWith EXCEPT ![r] = promises[r]]
    /\ sent' = [sent EXCEPT ![r] = AfterSend(r, UpdateError)]
    /\ attempts' = [attempts EXCEPT ![r] = @ + 1]
    /\ unhandled' = [unhandled EXCEPT ![r] = HeadersSent(r)]
    /\ UNCHANGED <<lookup, derivedResult, flagStore, history, body, reads, locationTimestamps, promises,
                   storeRawCalls, timer, derived>>

\* as CalculateDerived, but a failure of the computation is answered on res
CalculateDerivedReported(r) ==
    /\ timer[r] = "scheduled"
    /\ timer' = [timer EXCEPT ![r] = "fired"]
    /\ derived' = [derived EXCEPT ![r] = Append(@, locationTimestamps[r])]
    /\ \E outcome \in {"ok", "failed"} :
          /\ derivedResult' = [derivedResult EXCEPT ![r] = outcome]
          /\ attempts' = [attempts EXCEPT ![r] = IF outcome = "failed" THEN @ + 1 ELSE @]
          /\ unhandled' = [unhandled EXCEPT ![r] = @ \/ outcome = "failed"]
    /\ UNCHANGED <<lookup, flagStore, history, pc, body, reads, locationTimestamps,
                   promises, storeRawCalls, settledWith, sent>>

\* the setTimeout(.., 0) callback: lines 287-289 and 328-330
CalculateDerived(r) ==
    /\ timer[r] = "scheduled"
    /\ timer' = [timer EXCEPT ![r] = "fired"]
    /\ derived' = [derived EXCEPT ![r] = Append(@, locationTimestamps[r])]
    /\ \E outcome \in {"ok", "failed"} :
          derivedResult' = [derivedResult EXCEPT ![r] = outcome]
    /\ UNCHANGED <<lookup, flagStore, history, pc, body, reads, locationTimestamps, promises,
                   storeRawCalls, settledWith, sent, attempts, unhandled>>

(* -------------------- GET /locationById/:deviceId --------------------- *)
DefaultN == 1

\* req.query.n, when given, is a positive count
QueryNs == {UndefNum} \cup (1..MaxN)

\* const n = req.query.n || 1;
QueryNOffByOne(n) == (IF TruthyNum(n) THEN n ELSE DefaultN) + 1
QueryN(n) == IF TruthyNum(n) THEN n ELSE DefaultN

RemoveAt(h, k) == [i \in 1..(Len(h) - 1) |-> IF i < k THEN h[i] ELSE h[i + 1]]

\* the records of a history, latest timestamp first (of two records with one
\* timestamp, the one appended later first)
RECURSIVE MostRecentFirst(_)
MostRecentFirst(h) ==
    IF h = <<>> THEN <<>>
    ELSE LET k == CHOOSE i \in 1..Len(h) :
                     \A j \in 1..Len(h) :
                        \/ h[j].timestamp < h[i].timestamp
                        \/ (h[j].timestamp = h[i].timestamp /\ j <= i)
         IN  <<h[k]>> \o MostRecentFirst(RemoveAt(h, k))

\* firebaseService.getLastLocations(deviceId, n): nothing for a device
\* without history, else its n most recent records, most recent first
GetLastLocations(deviceId, n) ==
    LET h == history[deviceId]
        sorted == MostRecentFirst(h)
    IN  [found |-> h # <<>>,
         data |-> SubSeq(sorted, 1, IF n < Len(sorted) THEN n ELSE Len(sorted))]

\* the then-callback of lines 351-360: 404 for no data, else 200 with the data
LocationById(deviceId, queryN) ==
    /\ LET data == GetLastLocations(deviceId, QueryN(queryN))
       IN  lookup' = [deviceId |-> deviceId, n |-> queryN, had |-> Len(history[deviceId]),
                      response |-> IF ~data.found
                                     THEN [code |-> 404, data |-> <<>>]
                                     ELSE [code |-> 200, data |-> data.data]]
    /\ UNCHANGED <<flagStore, history, pc, body, reads, locationTimestamps, promises,
                   storeRawCalls, settledWith, sent, attempts, unhandled, timer,
                   derived, derivedResult>>

\* the catch of lines 361-366: the read failed
LocationByIdCatch(deviceId, queryN) ==
    /\ lookup' = [deviceId |-> deviceId, n |-> queryN, had |-> Len(history[deviceId]),
                  response |-> [code |-> 500, data |-> <<>>]]
    /\ UNCHANGED <<flagStore, history, pc, body, reads, locationTimestamps, promises,
                   storeRawCalls, settledWith, sent, attempts, unhandled, timer,
                   derived, derivedResult>>

(* --------------------------- specification ---------------------------- *)
\* one request at a time, every request body
Single == {1}

Next ==
    \/ \E r \in Single :
          pc[r] = "idle" /\ \E b \in Bodies, now \in Times : PostLocation(r, b, now)
    \/ \E r \in Single :
          pc[r] = "get" /\ \E now \in Times : FlagGetThen(r, now)
    \/ \E r \in Single : FlagGetCatch(r)
    \/ \E r \in Single : \E i \in 1..Len(promises[r]) : StoreRawOk(r, i)
    \/ \E r \in Single : \E i \in 1..Len(promises[r]) : StoreRawFail(r, i)
    \/ \E r \in Single : PromiseAllThen(r)
    \/ \E r \in Single : PromiseAllCatch(r)
    \/ \E r \in Single : CalculateDerived(r)

Spec == Init /\ [][Next]_vars

\* several requests in flight at once, over a few request bodies
ConcBodies ==
    [flag : {UndefStr, "zoneA", "missing"},
     location : {[present |-> TRUE, latitude |-> 1, longitude |-> 2,
                  accuracy |-> 10, multi |-> UndefNum]},
     devices : [kind : {"array"},
                items : {<<>>, <<[id |-> "d1", distance |-> 2]>>,
                         <<[id |-> UndefStr, distance |-> 5]>>}]]

NextConc ==
    \/ \E r \in Req :
          pc[r] = "idle" /\ \E b \in ConcBodies, now \in Times : PostLocation(r, b, now)
    \/ \E r \in Req :
          pc[r] = "get" /\ \E now \in Times : FlagGetThen(r, now)
    \/ \E r \in Req : FlagGetCatch(r)
    \/ \E r \in Req : \E i \in 1..Len(promises[r]) : StoreRawOk(r, i)
    \/ \E r \in Req : \E i \in 1..Len(promises[r]) : StoreRawFail(r, i)
    \/ \E r \in Req : PromiseAllThen(r)
    \/ \E r \in Req : PromiseAllCatch(r)
    \/ \E r \in Req : CalculateDerived(r)

SpecConc == Init /\ [][NextConc]_vars

\* requests in flight at once over a direct report and a report naming a
\* missing flag, with the event loop running every timer that is due
LiveBodies ==
    [flag : {UndefStr, "missing"},
     location : {[present |-> TRUE, latitude |-> 1, longitude |-> 2,
                  accuracy |-> 10, multi |-> UndefNum]},
     devices : [kind : {"array"}, items : {<<[id |-> "d1", distance |-> 2]>>}]]

NextLive ==
    \/ \E r \in Req :
          pc[r] = "idle" /\ \E b \in LiveBodies, now \in Times : PostLocation(r, b, now)
    \/ \E r \in Req :
          pc[r] = "get" /\ \E now \in Times : FlagGetThen(r, now)
    \/ \E r \in Req : FlagGetCatch(r)
    \/ \E r \in Req : \E i \in 1..Len(promises[r]) : StoreRawOk(r, i)
    \/ \E r \in Req : \E i \in 1..Len(promises[r]) : StoreRawFail(r, i)
    \/ \E r \in Req : PromiseAllThen(r)
    \/ \E r \in Req : PromiseAllCatch(r)
    \/ \E r \in Req : CalculateDerived(r)

SpecLive ==
    Init /\ [][NextLive]_vars /\ \A r \in Req : WF_vars(CalculateDerived(r))

\* reports for one device arriving together, and lookups of device histories
\* (the timers of the reports, which touch no history, are left pending)
QueryBodies ==
    [flag : {UndefStr},
     location : {[present |-> TRUE, latitude |-> 1, longitude |-> 2,
                  accuracy |-> 10, multi |-> UndefNum]},
     devices : [kind : {"array"}, items : {<<[id |-> "d1", distance |-> 2]>>}]]

NextQuery ==
    \/ \E r \in Req :
          pc[r] = "idle" /\ \E b \in QueryBodies, now \in Times : PostLocation(r, b, now)
    \/ \E r \in Req : \E i \in 1..Len(promises[r]) : StoreRawOk(r, i)
    \/ \E r \in Req : \E i \in 1..Len(promises[r]) : StoreRawFail(r, i)
    \/ \E r \in Req : PromiseAllThen(r)
    \/ \E r \in Req : PromiseAllCatch(r)
    \/ \E d \in {"d1", "d2"}, n \in QueryNs : LocationById(d, n)
    \/ \E d \in {"d1", "d2"}, n \in QueryNs : LocationByIdCatch(d, n)

SpecQuery == Init /\ [][NextQuery]_vars

(* ------------------------- vocabulary of the claims -------------------- *)
NonEmpty(s) == s # UndefStr /\ s # ""
HasLatLon(loc) == loc.present /\ loc.latitude # UndefNum /\ loc.longitude # UndefNum

\* the handler got past validation and base resolution and issued its writes
Accepted(r) == pc[r] \in {"all", "settled"}

DeviceItems(r) == MapItems(body[r].devices)
IdedEntries(r) == SelectSeq(DeviceItems(r), LAMBDA e : NonEmpty(e.id))
OnFlagPath(r) == NonEmpty(body[r].flag)
StoredFlag(r) == flagStore[body[r].flag]
BaseOf(r) == IF OnFlagPath(r) THEN StoredFlag(r) ELSE body[r].location
Landed(rec) == \E k \in 1..Len(history[rec.id]) : history[rec.id][k] = rec

(* ------------------------------- claims -------------------------------- *)

\* C1: for every accepted report, with k of its m device entries carrying a
\* non-empty id, exactly k writes are issued, the j-th of them keyed by the id
\* of the j-th such entry, and all written records carry one timestamp and the
\* latitude/longitude of the base (the report's location, or the stored flag).
C1_OneWritePerIdedEntry ==
    \A r \in Req : Accepted(r) =>
        LET ided == IdedEntries(r)
            calls == storeRawCalls[r]
        IN  /\ Len(calls) = Len(ided)
            /\ \A j \in 1..Len(calls) :
                  /\ j <= Len(ided)
                  /\ calls[j].key = ided[j].id
                  /\ calls[j].value.id = ided[j].id
                  /\ calls[j].value.location.latitude = BaseOf(r).latitude
                  /\ calls[j].value.location.longitude = BaseOf(r).longitude
            /\ \A j, k \in 1..Len(calls) :
                  calls[j].value.timestamp = calls[k].value.timestamp

\* an accepted flag report with entries for two different devices, both written
C1_Witness ==
    \E r \in Req :
        /\ Accepted(r) /\ OnFlagPath(r)
        /\ Len(storeRawCalls[r]) = 2
        /\ storeRawCalls[r][1].key # storeRawCalls[r][2].key
        /\ \A j \in 1..Len(storeRawCalls[r]) : Landed(storeRawCalls[r][j].value)

\* C2: a report naming a flag the store has no document for is answered with a
\* failure, issues no write and schedules no derived computation.
C2_MissingFlagFails ==
    \A r \in Req :
        (pc[r] # "idle" /\ OnFlagPath(r) /\ ~StoredFlag(r).exists) =>
            /\ storeRawCalls[r] = <<>> /\ promises[r] = <<>>
            /\ timer[r] = "none" /\ derived[r] = <<>>
            /\ sent[r] # <<Ok>>
            /\ pc[r] # "get" =>
                  (pc[r] = "failed" /\ Len(sent[r]) = 1 /\ sent[r][1].code = 500)

\* the read of the missing flag came back and the failure was reported, for a
\* report that does name a device
C2_Witness ==
    \E r \in Req :
        /\ pc[r] = "failed" /\ body[r].flag = "missing"
        /\ IdedEntries(r) # <<>>
        /\ sent[r] = <<FlagEmpty>>

\* C3: a report with neither a flag nor a location carrying latitude and
\* longitude is answered InvalidLocation by the handler itself: the store is
\* not read, no write is issued, nothing is scheduled.
C3_InvalidBeforeIO ==
    \A r \in Req :
        (pc[r] # "idle" /\ ~NonEmpty(body[r].flag) /\ ~HasLatLon(body[r].location)) =>
            /\ pc[r] = "failed"
            /\ sent[r] = <<InvalidLocation>>
            /\ reads[r] = <<>>
            /\ storeRawCalls[r] = <<>> /\ promises[r] = <<>>
            /\ timer[r] = "none" /\ derived[r] = <<>>

\* a report with an empty flag, a location without latitude and a device
C3_Witness ==
    \E r \in Req :
        /\ pc[r] = "failed" /\ body[r].flag = ""
        /\ body[r].location.present /\ body[r].location.latitude = UndefNum
        /\ body[r].location.longitude = 2
        /\ IdedEntries(r) # <<>>
        /\ sent[r] = <<InvalidLocation>>

\* C4 (as claimed): on both paths a report whose devices is not a sequence is
\* answered InvalidDevices before any read or write; an empty sequence is
\* accepted and yields no record.
C4_AsClaimed ==
    \A r \in Req :
        /\ (/\ pc[r] # "idle"
            /\ OnFlagPath(r) \/ ValidLocation(body[r].location)
            /\ body[r].devices.kind # "array") =>
               /\ sent[r] = <<InvalidDevices>>
               /\ reads[r] = <<>>
               /\ storeRawCalls[r] = <<>>
        /\ (/\ Accepted(r)
            /\ body[r].devices.kind = "array"
            /\ body[r].devices.items = <<>>) =>
               /\ locationTimestamps[r] = <<>>
               /\ storeRawCalls[r] = <<>>

\* C5 (as claimed): on the flag path every written record has the stored
\* flag's latitude/longitude and accuracy = (stored accuracy, or 20 when the
\* document has none) + distance * stored multiplier.
C5_AsClaimed ==
    \A r \in Req : (Accepted(r) /\ OnFlagPath(r) /\ StoredFlag(r).exists) =>
        LET flag == StoredFlag(r)
            ided == IdedEntries(r)
            stored == IF flag.accuracy = UndefNum THEN DefaultAccuracy ELSE flag.accuracy
        IN  \A j \in 1..Len(storeRawCalls[r]) :
               LET loc == storeRawCalls[r][j].value.location
               IN  /\ loc.latitude = flag.latitude
                   /\ loc.longitude = flag.longitude
                   /\ j <= Len(ided)
                   /\ loc.accuracy = stored + ided[j].distance * flag.multi

\* C6: calculateDerived is called at most once per request, it is scheduled
\* exactly when the success response went out, and never for a request that
\* was rejected, whose flag did not resolve, or one of whose writes failed.
C6_DerivedOncePerSuccess ==
    \A r \in Req :
        /\ Len(derived[r]) <= 1
        /\ (Len(derived[r]) = 1) <=> (timer[r] = "fired")
        /\ (timer[r] # "none") <=> (sent[r] = <<Ok>>)
        /\ timer[r] # "none" =>
              /\ pc[r] = "settled"
              /\ \A i \in 1..Len(promises[r]) : promises[r][i] \in {"resolved", "fulfilled"}
              /\ OnFlagPath(r) => StoredFlag(r).exists
              /\ ~OnFlagPath(r) => HasLatLon(body[r].location)

\* the derived computation ran once after a successful report with a write
C6_Witness ==
    \E r \in Req :
        /\ sent[r] = <<Ok>> /\ timer[r] = "fired" /\ Len(derived[r]) = 1
        /\ storeRawCalls[r] # <<>>

\* C7 (as claimed): calculateDerived receives exactly the records that were
\* written: one per entry with a non-empty id, none for an entry without.
C7_AsClaimed ==
    \A r \in Req : derived[r] # <<>> =>
        derived[r][1] = [j \in 1..Len(storeRawCalls[r]) |-> storeRawCalls[r][j].value]

\* C8: when a write of a request fails, the request is answered with the
\* update error and nothing is scheduled; every write of the request that
\* succeeded, before or after that, is in the history of its device.
C8_FailureKeepsPartialWrites ==
    \A r \in Req :
        /\ (\E i \in 1..Len(promises[r]) : promises[r][i] = "rejected") =>
              /\ timer[r] = "none" /\ derived[r] = <<>>
              /\ sent[r] # <<Ok>>
              /\ pc[r] = "settled" => sent[r] = <<UpdateError>>
        /\ \A i \in 1..Len(promises[r]) :
              promises[r][i] = "fulfilled" => Landed(locationTimestamps[r][i])

\* the failure was reported while another write was pending, and that write
\* landed afterwards
C8_Witness ==
    \E r \in Req :
        /\ pc[r] = "settled" /\ sent[r] = <<UpdateError>>
        /\ \E i, j \in 1..Len(promises[r]) :
              /\ promises[r][i] = "rejected"
              /\ settledWith[r][j] = "pending"
              /\ promises[r][j] = "fulfilled"
              /\ Landed(locationTimestamps[r][j])

\* C9: an accepted report whose devices sequence holds only entries without
\* an id issues no write, has nothing to wait for, and is answered with success.
C9_IdlessOnlySucceeds ==
    \A r \in Req :
        (/\ Accepted(r)
         /\ body[r].devices.kind = "array"
         /\ \A i \in 1..Len(body[r].devices.items) :
               ~NonEmpty(body[r].devices.items[i].id)) =>
            /\ storeRawCalls[r] = <<>>
            /\ \A i \in 1..Len(promises[r]) : promises[r][i] = "resolved"
            /\ pc[r] = "settled" => sent[r] = <<Ok>>

\* a report of two entries, one with no id and one with an empty id, succeeded
C9_Witness ==
    \E r \in Req :
        /\ pc[r] = "settled" /\ sent[r] = <<Ok>>
        /\ body[r].devices.kind = "array"
        /\ \E i, j \in 1..Len(body[r].devices.items) :
              /\ body[r].devices.items[i].id = UndefStr
              /\ body[r].devices.items[j].id = ""
        /\ IdedEntries(r) = <<>>

\* C10 (as claimed): InvalidLocation is the answer exactly when the report has
\* no non-empty flag and its location lacks a latitude or a longitude; a
\* report without flag whose location has both, whatever their values, and
\* whose devices is a sequence is accepted.
C10_AsClaimed ==
    \A r \in Req : pc[r] # "idle" =>
        /\ (sent[r] = <<InvalidLocation>>) <=>
              (~NonEmpty(body[r].flag) /\ ~HasLatLon(body[r].location))
        /\ (/\ ~NonEmpty(body[r].flag)
            /\ HasLatLon(body[r].location)
            /\ body[r].devices.kind = "array") => Accepted(r)

\* C11 (as claimed): on the direct path every written record has accuracy =
\* baseAccuracy + distance, baseAccuracy being the accuracy of the report's
\* location whenever it gives one, whatever its value, and 20 only when it
\* gives none.
C11_AsClaimed ==
    \A r \in Req : (Accepted(r) /\ ~OnFlagPath(r)) =>
        LET given == body[r].location.accuracy
            baseAccuracy == IF given = UndefNum THEN DefaultAccuracy ELSE given
            ided == IdedEntries(r)
        IN  \A j \in 1..Len(storeRawCalls[r]) :
               /\ j <= Len(ided)
               /\ storeRawCalls[r][j].value.location.accuracy
                     = baseAccuracy + ided[j].distance

\* C13: whatever the order in which the writes of a request complete, the
\* success response is out only in states where every write the request
\* issued has succeeded and landed: none is pending, none has failed.
C13_SuccessOnlyAfterAllWrites ==
    \A r \in Req : (Accepted(r) /\ sent[r] = <<Ok>>) =>
        /\ pc[r] = "settled"
        /\ \A i \in 1..Len(promises[r]) :
              /\ promises[r][i] \notin {"pending", "rejected"}
              /\ settledWith[r][i] \notin {"pending", "rejected"}
              /\ NonEmpty(locationTimestamps[r][i].id) =>
                    (promises[r][i] = "fulfilled" /\ Landed(locationTimestamps[r][i]))
        /\ \A j \in 1..Len(storeRawCalls[r]) : Landed(storeRawCalls[r][j].value)

\* success went out for a report with writes for two different devices
C13_Witness ==
    \E r \in Req :
        /\ sent[r] = <<Ok>> /\ pc[r] = "settled"
        /\ Len(storeRawCalls[r]) = 2
        /\ storeRawCalls[r][1].key = "d2" /\ storeRawCalls[r][2].key = "d1"
        /\ history["d1"] # <<>> /\ history["d2"] # <<>>

\* C16 (as claimed): every request ends with exactly one response; the handler
\* never calls send()/json() a second time for a request and no rejection
\* escapes its catch handlers.
C16_AsClaimed ==
    \A r \in Req :
        /\ attempts[r] <= 1
        /\ ~unhandled[r]
        /\ pc[r] \in {"settled", "failed"} => Len(sent[r]) = 1

\* C14: calculateDerived of a request runs in a step of its own after the
\* step that sent the request's success response, that step leaves the
\* response and the handler's error state as they were whether the
\* computation succeeds or fails, a response once sent never changes, and a
\* scheduled computation is eventually run.
C14_DerivedAfterResponse ==
    /\ [](\A r \in Req : (timer[r] # "none" \/ derivedResult[r] # "none") => sent[r] = <<Ok>>)
    /\ [][\A r \in Req :
            /\ (timer'[r] = "fired" /\ timer[r] # "fired") =>
                  /\ timer[r] = "scheduled"
                  /\ sent[r] = <<Ok>>
                  /\ sent' = sent /\ attempts' = attempts /\ unhandled' = unhandled
            /\ sent[r] # <<>> => sent'[r] = sent[r]]_vars
    /\ \A r \in Req : (timer[r] = "scheduled") ~> (timer[r] = "fired")

\* the derived computation of a request failed after its success response,
\* while another request was still waiting for its writes
C14_Witness ==
    \E r, q \in Req :
        /\ r # q
        /\ sent[r] = <<Ok>> /\ timer[r] = "fired" /\ derivedResult[r] = "failed"
        /\ attempts[r] = 1 /\ ~unhandled[r]
        /\ pc[q] = "all"

\* the writes of all requests that have succeeded for device key d
FulfilledFor(d) ==
    UNION {{<<r, i>> : i \in {k \in 1..Len(promises[r]) :
                                /\ promises[r][k] = "fulfilled"
                                /\ locationTimestamps[r][k].id = d}} : r \in Req}

\* C15: with requests interleaved in every way, each step leaves every
\* device history as it was or appends one record to it, and each history
\* holds one record per write that succeeded for that device, so two
\* requests in flight together that each wrote one entry for d leave two
\* records in the history of d.
C15_HistoryOnlyGrows ==
    /\ [](\A d \in Ids : Len(history[d]) = Cardinality(FulfilledFor(d)))
    /\ [][\A d \in Ids :
            /\ Len(history'[d]) \in {Len(history[d]), Len(history[d]) + 1}
            /\ SubSeq(history'[d], 1, Len(history[d])) = history[d]]_vars

\* two requests, both waiting on Promise.all, each with one write for d1
\* carrying the same timestamp, and both writes in the history of d1
C15_Witness ==
    /\ pc[1] = "all" /\ pc[2] = "all"
    /\ Len(storeRawCalls[1]) = 1 /\ Len(storeRawCalls[2]) = 1
    /\ storeRawCalls[1][1].key = "d1" /\ storeRawCalls[2][1].key = "d1"
    /\ storeRawCalls[1][1].value.timestamp = storeRawCalls[2][1].value.timestamp
    /\ promises[1][1] = "fulfilled" /\ promises[2][1] = "fulfilled"
    /\ Len(history["d1"]) = 2

\* C12: a lookup of a device with n (1 when the request gives none) is
\* answered not-found exactly when the device had no history, and otherwise
\* with at most n records, all of that device and from its history, in order
\* of non-increasing timestamp, none of them older than a record left out.
C12_LastLocations ==
    (lookup.deviceId # UndefStr /\ lookup.response.code # 500) =>
        LET n == IF lookup.n = UndefNum THEN 1 ELSE lookup.n
            data == lookup.response.data
            h == SubSeq(history[lookup.deviceId], 1, lookup.had)
        IN  /\ (lookup.response.code = 404) <=> (lookup.had = 0)
            /\ lookup.response.code = 404 => data = <<>>
            /\ lookup.response.code = 200 =>
                  /\ Len(data) = (IF n < lookup.had THEN n ELSE lookup.had)
                  /\ Len(data) <= n
                  /\ \A i \in 1..Len(data) :
                        /\ data[i].id = lookup.deviceId
                        /\ \E k \in 1..Len(h) : h[k] = data[i]
                  /\ \A i, j \in 1..Len(data) :
                        i < j => data[i].timestamp >= data[j].timestamp
                  /\ Cardinality({k \in 1..Len(h) :
                                    \A i \in 1..Len(data) :
                                       h[k].timestamp > data[i].timestamp}) = 0

\* a lookup without n of a device whose history holds an older record after a
\* newer one: one record comes back, the newer
C12_Witness ==
    /\ lookup.deviceId = "d1" /\ lookup.n = UndefNum /\ lookup.had = 2
    /\ history["d1"][1].timestamp > history["d1"][2].timestamp
    /\ lookup.response.code = 200
    /\ lookup.response.data = <<history["d1"][1]>>

====
